---- MODULE Spec2Model ----
(***************************************************************************)
(* ChromeRemoteDebugger of src/main.py: one session object that discovers  *)
(* tabs over HTTP, holds one websocket handle, sends commands with a       *)
(* request id and reads the messages the browser pushes back.              *)
(*                                                                         *)
(* A blocking ws.recv() is a step that is enabled once a message is in     *)
(* the connection's inbox (or the connection is gone, and then it raises). *)
(* The browser side is the environment: it answers each command written    *)
(* to a connection once, may push events at any time, and may drop the     *)
(* connection.                                                             *)
(***************************************************************************)
EXTENDS Integers, Sequences, FiniteSets, TLC

\* ------------------------------------------------------------- bounds
MaxTabs == 2      \* longest directory listing
MaxId == 2        \* commands one session sends in a run of the model
MaxConns == 2     \* connections one session opens in a run of the model
MaxThreads == 2   \* worker threads the GUI starts in a run of the model
MaxDebuggers == 2 \* session objects the GUI constructs in a run of the model

\* ------------------------------------------------------------- values
None == 0                     \* Python None (handle, tab id, value)
NewTabId == MaxTabs + 1       \* id of the tab GET /json/new creates

NoMsg == [kind |-> "none", id |-> 0, body |-> "none"]
Reply(i, b) == [kind |-> "reply", id |-> i, body |-> b]
Event(m) == [kind |-> "event", id |-> 0, body |-> m]

LoadEvent == "Page.loadEventFired"
EventMethods == {LoadEvent, "Page.frameNavigated"}

\* What the browser answers to a method.  The body names the shape of the
\* JSON object: "error" {id, error}; "noresult" {id}; "empty" {id, result:{}};
\* "undef" {id, result:{result:{type:undefined}}}; "value"
\* {id, result:{result:{value:v}}}; "root" {id, result:{root:r}}.
ReplyBodies(method) ==
  CASE method = "Page.navigate" -> {"empty"}
    [] method = "DOM.getDocument" -> {"root", "error"}
    [] method = "Runtime.evaluate" -> {"value", "undef", "empty", "noresult", "error"}

\* The listings GET /json answers with: tab descriptors [id, type, hasWs],
\* hasWs telling whether the descriptor carries webSocketDebuggerUrl.
TabTypes == {"page", "background_page", "service_worker"}
Listings ==
  UNION { { l \in [1..n -> [id : 1..MaxTabs, type : TabTypes, hasWs : BOOLEAN]] :
              \A i \in 1..n : l[i].id = i } : n \in 0..MaxTabs }

\* The outcome of one HTTP GET to the discovery endpoint.
HttpOutcomes == {"ok", "status", "unreachable", "malformed"}

\* The text slot of a batch result.
Text(v) == [kind |-> "text", from |-> v]
NoContent == [kind |-> "nocontent", from |-> 0]
ErrorText == [kind |-> "error", from |-> 0]

\* What a finished call returned: ok and why (the flag and the message, or
\* whether it returned normally), val (the value), results (a batch's list).
\* cmd is the id the call sent, src the message its outcome was read from,
\* tabs and home the tabs a batch ran over and the tab bound when it started,
\* http and listing the answer get_all_tabs was given.
NoRet == [op |-> "none", ok |-> FALSE, val |-> None, cmd |-> 0, src |-> NoMsg,
          why |-> "none", tabs |-> <<>>, home |-> None, results |-> <<>>,
          http |-> "none", listing |-> <<>>]

VARIABLES
  ws,          \* self.ws: index into conns, or None
  tab_id,      \* self.tab_id
  request_id,  \* self.request_id
  conns,       \* every connection the session opened: [tab, state]
  inbox,       \* the message pushed to the connection self.ws and not read yet
  pending,     \* commands written to the connection self.ws, not answered yet
  sent,        \* the ids of the commands written to a connection, in order
  pc,          \* where the one caller of the session is
  ret,         \* what the last finished operation returned
  btabs,       \* batch: tabs (the listing get_all_tabs returned)
  bidx,        \* batch: position of the for loop
  bhome,       \* batch: current_tab_id
  results,     \* batch: results
  chrome_process,  \* GUI: self.chrome_process is set
  debugger,    \* GUI: self.debugger, the number of the session object, or None
  created,     \* GUI: ChromeRemoteDebugger objects constructed so far
  main,        \* GUI: the handler the Tk main thread runs and where it is
  threads,     \* GUI: the worker threads Extract started and where they are
  workers      \* the worker threads inside the session's commands, step by step

vars == <<ws, tab_id, request_id, conns, inbox, pending, sent, pc, ret,
          btabs, bidx, bhome, results,
          chrome_process, debugger, created, main, threads, workers>>

batch == <<btabs, bidx, bhome, results>>

session == <<ws, tab_id, request_id, conns, inbox, pending, sent, pc, ret, batch>>

gui == <<chrome_process, debugger, created, main, threads, workers>>

\* The main thread in the Tk event loop, between two handlers.
InLoop == [handler |-> "none", at |-> "loop", obj |-> None]

\* A worker thread that was not started yet.
Unborn == [at |-> "unborn", obj |-> None]

\* A worker thread inside command op of the session: at is where it is,
\* loaded the value of self.request_id it read for the increment, wrote the
\* id its navigate Command was written with, ended the message its navigate
\* ended on.
Worker(op, at) ==
  [op |-> op, at |-> at, loaded |-> 0, wrote |-> 0, ended |-> NoMsg]

\* ------------------------------------------------------------- helpers
IsOpen(c) == c # None /\ conns[c].state = "open"

LiveConns == {c \in 1..Len(conns) : conns[c].state = "open"}

\* Of a connection the session holds no reference to any more, only whether it
\* is still open is kept.
Forget(cs) ==
  [k \in DOMAIN cs |->
     [tab |-> None, state |-> IF cs[k].state = "open" THEN "open" ELSE "closed"]]

\* websocket.create_connection succeeded: a new open connection to tab t, and
\* the handle held before is referenced no more.
Opened(t) == Append(Forget(conns), [tab |-> t, state |-> "open"])

SetState(c, s) == [conns EXCEPT ![c].state = s]

Init ==
  /\ ws = None
  /\ tab_id = None
  /\ request_id = 0
  /\ conns = <<>>
  /\ inbox = <<>>
  /\ pending = {}
  /\ sent = <<>>
  /\ pc = "idle"
  /\ ret = NoRet
  /\ btabs = <<>>
  /\ bidx = 0
  /\ bhome = None
  /\ results = <<>>
  /\ chrome_process = FALSE
  /\ debugger = None
  /\ created = 0
  /\ main = InLoop
  /\ threads = [t \in 1..MaxThreads |-> Unborn]
  /\ workers = [w \in 1..MaxThreads |-> Worker("none", "unborn")]

\* The caller is outside the session and has taken what the last call returned.
Idle == pc = "idle" /\ ret = NoRet

\* The caller takes the value the call returned (the assignments at lines 787,
\* 820, 863 and 872); the browser's steps go on after that.
take_result ==
  /\ pc = "idle"
  /\ ret # NoRet
  /\ ret' = NoRet
  /\ UNCHANGED <<ws, tab_id, request_id, conns, inbox, pending, sent, pc, batch, gui>>

\* ------------------------------------------------------------- the directory
\* get_all_tabs with the filter of connect (line 55): entries without a socket
\* URL are dropped too.
get_all_tabs_suitable(http, listing) ==
  IF http = "ok"
  THEN SelectSeq(listing, LAMBDA t : t.type = "page" /\ t.hasWs)
  ELSE <<>>

\* get_all_tabs: the page-type entries of the listing, [] when the GET fails,
\* answers another status than 200, or the body is no listing.
get_all_tabs(http, listing) ==
  IF http = "ok" THEN SelectSeq(listing, LAMBDA t : t.type = "page") ELSE <<>>

\* A call of get_all_tabs alone, on one answer of the directory.
get_all_tabs_call ==
  /\ Idle
  /\ \E h \in HttpOutcomes, l \in Listings :
       ret' = [NoRet EXCEPT !.op = "get_all_tabs", !.ok = TRUE, !.why = "returned",
                            !.tabs = get_all_tabs(h, l), !.http = h, !.listing = l]
  /\ UNCHANGED <<ws, tab_id, request_id, conns, inbox, pending, sent, pc, batch, gui>>

\* The scan of lines 54-55 that keeps going: the last such entry is taken.
FirstSuitable_last(listing) ==
  IF \E i \in 1..Len(listing) : listing[i].hasWs /\ listing[i].type = "page"
  THEN CHOOSE i \in 1..Len(listing) :
         /\ listing[i].hasWs /\ listing[i].type = "page"
         /\ \A j \in (i + 1)..Len(listing) : ~(listing[j].hasWs /\ listing[j].type = "page")
  ELSE 0

\* connect, lines 54-55: the first entry with a socket URL and the page type
\* (its index, 0 when there is none).
FirstSuitable(listing) ==
  IF \E i \in 1..Len(listing) : listing[i].hasWs /\ listing[i].type = "page"
  THEN CHOOSE i \in 1..Len(listing) :
         /\ listing[i].hasWs /\ listing[i].type = "page"
         /\ \A j \in 1..(i - 1) : ~(listing[j].hasWs /\ listing[j].type = "page")
  ELSE 0

\* ------------------------------------------------------------- returns
Return(op, ok, why) ==
  ret' = [NoRet EXCEPT !.op = op, !.ok = ok, !.why = why]

ReturnValue(op, ok, v, cmd, m, why) ==
  ret' = [NoRet EXCEPT !.op = op, !.ok = ok, !.val = v, !.cmd = cmd, !.src = m,
                       !.why = why]

\* What a call hands to its caller: connect and navigate return the pair of
\* flag and message, get_document and execute_script the value alone (None by
\* every return without one), get_all_tabs the list, the batch its results.
Outcome(r) ==
  CASE r.op \in {"connect", "navigate"} -> <<r.ok, r.why>>
    [] r.op \in {"get_document", "execute_script"} -> <<r.val>>
    [] r.op = "get_all_tabs" -> <<r.tabs>>
    [] r.op = "extract_text_from_all_tabs" -> <<r.results>>
    [] OTHER -> <<>>

\* ------------------------------------------------------------- connect
\* The bind that opens the connection and does not keep it: self.ws is left
\* as it was.
BindNew_drops_handle(t) ==
  /\ Len(conns) < MaxConns
  /\ conns' = Append(conns, [tab |-> None, state |-> "open"])
  /\ UNCHANGED <<ws, inbox, pending>>

\* Binds self.ws to a new connection to tab t (nothing is closed first).
BindNew(t) ==
  /\ Len(conns) < MaxConns
  /\ conns' = Opened(t)
  /\ ws' = Len(conns) + 1
  /\ inbox' = <<>>
  /\ pending' = {}

\* One requests.get(...) of connect and what the code makes of the answer:
\* "raise" (unreachable, or a body that is no JSON), "status" (not 200),
\* "empty" (no entry), "bind" (an entry with a socket URL and the page type;
\* tab is the first such entry), "new" (entries, none of them suitable).
ListingAnswer(l) ==
  IF l = <<>> THEN [case |-> "empty", tab |-> None]
  ELSE IF FirstSuitable(l) # 0
       THEN [case |-> "bind", tab |-> l[FirstSuitable(l)].id]
       ELSE [case |-> "new", tab |-> None]

ListingAnswers ==
  {[case |-> "raise", tab |-> None], [case |-> "status", tab |-> None]}
  \cup {ListingAnswer(l) : l \in Listings}

\* GET /json/new: "raise", "status", or the descriptor of the new tab, with or
\* without its socket URL.
NewTabAnswers == {"raise", "status", "tab", "tab_without_url"}

\* What the return of connect keeps of the answer GET /json gave, for the
\* properties that are about the listing: nothing, or the listing.
Unseen == [http |-> "none", listing |-> <<>>]

ConnectReturn(ok, why, seen) ==
  ret' = [NoRet EXCEPT !.op = "connect", !.ok = ok, !.why = why,
                       !.http = seen.http, !.listing = seen.listing]

\* connect, lines 41-73, on the answer a of GET /json.
connect_on(a, seen) ==
  /\ Idle
  /\ UNCHANGED <<request_id, sent, pc, batch, gui>>
  /\ \/ /\ a.case = "raise"
        /\ ConnectReturn(FALSE, "Connection error", seen)
        /\ UNCHANGED <<ws, tab_id, conns, inbox, pending>>
     \/ /\ a.case = "status"
        /\ ConnectReturn(FALSE, "Failed to connect", seen)
        /\ UNCHANGED <<ws, tab_id, conns, inbox, pending>>
     \/ /\ a.case = "empty"
        /\ ConnectReturn(FALSE, "No Chrome tabs found", seen)
        /\ UNCHANGED <<ws, tab_id, conns, inbox, pending>>
     \/ /\ a.case = "bind"
        /\ tab_id' = a.tab
        /\ \/ /\ BindNew(a.tab)
              /\ ConnectReturn(TRUE, "Connected successfully", seen)
           \/ /\ ConnectReturn(FALSE, "Connection error", seen)  \* create_connection raises
              /\ UNCHANGED <<ws, conns, inbox, pending>>
     \/ /\ a.case = "new"
        /\ \E n \in NewTabAnswers :
             \/ /\ n = "raise"
                /\ ConnectReturn(FALSE, "Connection error", seen)
                /\ UNCHANGED <<ws, tab_id, conns, inbox, pending>>
             \/ /\ n = "status"
                /\ ConnectReturn(FALSE, "Failed to create new tab", seen)
                /\ UNCHANGED <<ws, tab_id, conns, inbox, pending>>
             \/ /\ n = "tab_without_url"                \* KeyError after line 67
                /\ tab_id' = NewTabId
                /\ ConnectReturn(FALSE, "Connection error", seen)
                /\ UNCHANGED <<ws, conns, inbox, pending>>
             \/ /\ n = "tab"
                /\ tab_id' = NewTabId
                /\ \/ /\ BindNew(NewTabId)
                      /\ ConnectReturn(TRUE, "Connected to new tab", seen)
                   \/ /\ ConnectReturn(FALSE, "Connection error", seen)  \* create_connection raises
                      /\ UNCHANGED <<ws, conns, inbox, pending>>

connect == \E a \in ListingAnswers : connect_on(a, Unseen)

\* connect on a listing GET /json answered with, the listing kept in the return.
connect_listing ==
  \E l \in Listings : connect_on(ListingAnswer(l), [http |-> "ok", listing |-> l])

\* ------------------------------------------------------------- close
\* close without the try of lines 536-539: the exception ws.close() raises
\* leaves the call, before the handle is dropped.
close_propagates ==
  /\ Idle
  /\ UNCHANGED <<tab_id, request_id, sent, pc, batch, gui>>
  /\ IF ws = None
     THEN /\ Return("close", TRUE, "closed")
          /\ UNCHANGED <<ws, conns, inbox, pending>>
     ELSE \/ /\ Return("close", TRUE, "closed")
             /\ ws' = None
             /\ inbox' = <<>>
             /\ pending' = {}
             /\ conns' = Forget(SetState(ws, "closed"))
          \/ /\ Return("close", FALSE, "raised")
             /\ UNCHANGED <<ws, conns, inbox, pending>>

\* ws.close() of the held handle: it closes the connection, or it raises and
\* the connection is left as it was.
close ==
  /\ Idle
  /\ UNCHANGED <<tab_id, request_id, sent, pc, batch, gui>>
  /\ Return("close", TRUE, "closed")
  /\ IF ws = None
     THEN UNCHANGED <<ws, conns, inbox, pending>>
     ELSE /\ ws' = None
          /\ inbox' = <<>>
          /\ pending' = {}
          /\ \/ conns' = Forget(SetState(ws, "closed"))
             \/ conns' = Forget(conns)

\* ------------------------------------------------------------- commands
Command(i, method) == [id |-> i, method |-> method]

\* self.request_id += 1; self.ws.send(...): the id is taken first, then the
\* command is written, which raises on a handle that is not open any more.
\* The send without the increment of line 81: the id of the last command is
\* written again.
SendOk_same_id(method) ==
  /\ request_id < MaxId
  /\ IsOpen(ws)
  /\ request_id' = request_id
  /\ sent' = Append(sent, request_id')
  /\ pending' = pending \cup {Command(request_id', method)}

SendOk(method) ==
  /\ request_id < MaxId
  /\ IsOpen(ws)
  /\ request_id' = request_id + 1
  /\ sent' = Append(sent, request_id')
  /\ pending' = pending \cup {Command(request_id', method)}

SendRaises ==
  /\ request_id < MaxId
  /\ ~IsOpen(ws)
  /\ request_id' = request_id + 1
  /\ UNCHANGED <<sent, pending>>

\* ws.recv() returns the oldest unread message; with none buffered it blocks
\* while the connection is open and raises once it is gone.
RecvReady == inbox # <<>>
RecvRaises == inbox = <<>> /\ ~IsOpen(ws)

\* ------------------------------------------------------------- navigate
\* The wait ended by any reply and any event.
NavigateDone_any(m, rid) == m.kind \in {"reply", "event"}

\* Lines 91-94: the message ends the wait.
NavigateDone(m, rid) ==
  \/ m.kind = "reply" /\ m.id = rid
  \/ m.kind = "event" /\ m.body = LoadEvent

navigate ==
  /\ Idle
  /\ UNCHANGED <<ws, tab_id, conns, inbox, batch, gui>>
  /\ IF ws = None
     THEN /\ Return("navigate", FALSE, "Not connected to Chrome")
          /\ UNCHANGED <<request_id, sent, pending, pc>>
     ELSE \/ /\ SendOk("Page.navigate")
             /\ pc' = "navigate"
             /\ ret' = NoRet
          \/ /\ SendRaises
             /\ Return("navigate", FALSE, "Navigation error")
             /\ UNCHANGED pc

\* The loop of navigate with a retry: a message that does not end the wait
\* has the Command written again.
navigate_recv_resends ==
  /\ pc = "navigate"
  /\ UNCHANGED <<ws, tab_id, request_id, conns, batch, gui>>
  /\ \/ /\ RecvReady
        /\ inbox' = Tail(inbox)
        /\ IF NavigateDone(Head(inbox), request_id)
           THEN /\ pc' = "idle"
                /\ ReturnValue("navigate", TRUE, None, request_id, Head(inbox),
                               IF Head(inbox).kind = "reply"
                               THEN "Navigation successful" ELSE "Page loaded")
                /\ UNCHANGED <<sent, pending>>
           ELSE /\ sent' = Append(sent, request_id)
                /\ pending' = pending \cup {Command(request_id, "Page.navigate")}
                /\ UNCHANGED <<pc, ret>>
     \/ /\ RecvRaises
        /\ pc' = "idle"
        /\ ReturnValue("navigate", FALSE, None, request_id, NoMsg, "Navigation error")
        /\ UNCHANGED <<inbox, sent, pending>>

navigate_recv ==
  /\ pc = "navigate"
  /\ UNCHANGED <<ws, tab_id, request_id, conns, pending, sent, batch, gui>>
  /\ \/ /\ RecvReady
        /\ inbox' = Tail(inbox)
        /\ IF NavigateDone(Head(inbox), request_id)
           THEN /\ pc' = "idle"
                /\ ReturnValue("navigate", TRUE, None, request_id, Head(inbox),
                               IF Head(inbox).kind = "reply"
                               THEN "Navigation successful" ELSE "Page loaded")
           ELSE UNCHANGED <<pc, ret>>
     \/ /\ RecvRaises
        /\ pc' = "idle"
        /\ ReturnValue("navigate", FALSE, None, request_id, NoMsg, "Navigation error")
        /\ UNCHANGED inbox

\* ------------------------------------------------------------- get_document
\* Lines 113-115: result.root of the message read, None without it.
DocumentRoot(m) == IF m.kind = "reply" /\ m.body = "root" THEN m.id ELSE None

get_document ==
  /\ Idle
  /\ UNCHANGED <<ws, tab_id, conns, inbox, batch, gui>>
  /\ IF ws = None
     THEN /\ Return("get_document", FALSE, "not connected")
          /\ UNCHANGED <<request_id, sent, pending, pc>>
     ELSE \/ /\ SendOk("DOM.getDocument")
             /\ pc' = "get_document"
             /\ ret' = NoRet
          \/ /\ SendRaises
             /\ Return("get_document", FALSE, "Error getting document")
             /\ UNCHANGED pc

\* get_document that gives the handle up when its ws.recv() raises.
get_document_recv_unbinds ==
  /\ pc = "get_document"
  /\ pc' = "idle"
  /\ UNCHANGED <<tab_id, request_id, conns, pending, sent, batch, gui>>
  /\ \/ /\ RecvReady
        /\ inbox' = Tail(inbox)
        /\ ws' = ws
        /\ ReturnValue("get_document", TRUE, DocumentRoot(Head(inbox)), request_id,
                       Head(inbox), "returned")
     \/ /\ RecvRaises
        /\ ws' = None
        /\ ReturnValue("get_document", FALSE, None, request_id, NoMsg,
                       "Error getting document")
        /\ UNCHANGED inbox

get_document_recv ==
  /\ pc = "get_document"
  /\ pc' = "idle"
  /\ UNCHANGED <<ws, tab_id, request_id, conns, pending, sent, batch, gui>>
  /\ \/ /\ RecvReady
        /\ inbox' = Tail(inbox)
        /\ ReturnValue("get_document", TRUE, DocumentRoot(Head(inbox)), request_id,
                       Head(inbox), "returned")
     \/ /\ RecvRaises
        /\ ReturnValue("get_document", FALSE, None, request_id, NoMsg,
                       "Error getting document")
        /\ UNCHANGED inbox

\* ------------------------------------------------------------- execute_script
\* The probe without its last level: result.result is taken for the value.
ScriptValue_two_levels(m) ==
  IF m.kind = "reply" /\ m.body \in {"value", "undef"} THEN m.id ELSE None

\* Lines 137-140: result.result.value of the message read, None when a level
\* of it is absent.
ScriptValue(m) == IF m.kind = "reply" /\ m.body = "value" THEN m.id ELSE None

execute_script ==
  /\ Idle
  /\ UNCHANGED <<ws, tab_id, conns, inbox, batch, gui>>
  /\ IF ws = None
     THEN /\ Return("execute_script", FALSE, "not connected")
          /\ UNCHANGED <<request_id, sent, pending, pc>>
     ELSE \/ /\ SendOk("Runtime.evaluate")
             /\ pc' = "execute_script"
             /\ ret' = NoRet
          \/ /\ SendRaises
             /\ Return("execute_script", FALSE, "Error executing script")
             /\ UNCHANGED pc

execute_script_recv ==
  /\ pc = "execute_script"
  /\ pc' = "idle"
  /\ UNCHANGED <<ws, tab_id, request_id, conns, pending, sent, batch, gui>>
  /\ \/ /\ RecvReady
        /\ inbox' = Tail(inbox)
        /\ ReturnValue("execute_script", TRUE, ScriptValue(Head(inbox)), request_id,
                       Head(inbox), "returned")
     \/ /\ RecvRaises
        /\ ReturnValue("execute_script", FALSE, None, request_id, NoMsg,
                       "Error executing script")
        /\ UNCHANGED inbox

\* ------------------------------------------------------------- extract_text_from_all_tabs
\* extract_page_text, line 465: the script's value, or the fixed text when the
\* value is None.
PageText(v) == IF v # None THEN Text(v) ELSE NoContent

Result(tab, text) == [tab |-> tab.id, text |-> text]

\* What get_all_tabs can answer.
TabLists == {get_all_tabs(h, l) : h \in HttpOutcomes, l \in Listings}

\* The batch runs from one blocking ws.recv() to the next without the browser
\* taking a step, so its code between two of them is one step of the model.
\* A run state b holds the session's fields and the locals of the call:
\* [ws, tab_id, request_id, conns, inbox, pending, sent, results, idx, at],
\* at = "loop" (before a pass), "recv" (blocked in the script's ws.recv()),
\* or how the call returned.
RunState(idx, res) ==
  [ws |-> ws, tab_id |-> tab_id, request_id |-> request_id, conns |-> conns,
   inbox |-> inbox, pending |-> pending, sent |-> sent, results |-> res,
   idx |-> idx, at |-> "loop"]

\* The except branch of the loop, lines 180-186.
TabFailed(tab, b) ==
  [b EXCEPT !.results = Append(@, Result(tab, ErrorText)), !.idx = @ + 1]

\* Lines 160-161: self.ws.close() of the held handle closes the connection,
\* or raises, with the connection closed or left as it was.
CloseHeld(b) ==
  [b EXCEPT !.conns = [@ EXCEPT ![b.ws].state = "closed"], !.inbox = <<>>,
            !.pending = {}]

\* Lines 164-172: the tab is bound over a new connection and the script is
\* sent, or create_connection raises.
BindTab(tab, b) ==
  LET b1 == [b EXCEPT !.tab_id = tab.id, !.inbox = <<>>, !.pending = {}] IN
  {TabFailed(tab, b1)}
  \cup { [b1 EXCEPT !.conns = Append(Forget(@), [tab |-> tab.id, state |-> "open"]),
                    !.ws = Len(b.conns) + 1,
                    !.request_id = @ + 1,
                    !.sent = Append(@, b.request_id + 1),
                    !.pending = {Command(b.request_id + 1, "Runtime.evaluate")},
                    !.at = "recv"] :
           x \in IF Len(b.conns) < MaxConns /\ b.request_id < MaxId THEN {1} ELSE {} }

\* One pass of the loop up to the script's ws.recv(), lines 154-172.
Pass(tab, b) ==
  IF ~tab.hasWs
  THEN {[b EXCEPT !.idx = @ + 1]}                                \* continue
  ELSE IF b.ws = None
       THEN BindTab(tab, b)
       ELSE {TabFailed(tab, b), TabFailed(tab, CloseHeld(b))}    \* close() raises
            \cup BindTab(tab, CloseHeld(b))

\* Line 192: the entry of the listing the restore connects to (0: none).
HomeEntry(tabs, home) ==
  IF \E i \in 1..Len(tabs) : tabs[i].id = home /\ tabs[i].hasWs
  THEN CHOOSE i \in 1..Len(tabs) :
         /\ tabs[i].id = home /\ tabs[i].hasWs
         /\ \A j \in 1..(i - 1) : ~(tabs[j].id = home /\ tabs[j].hasWs)
  ELSE 0

\* The restore without line 194: the handle is replaced, the tab id is not.
Restore_keeps_tab_id(tabs, home, b) ==
  IF home # None /\ HomeEntry(tabs, home) # 0
  THEN {[b EXCEPT !.at = "restore failed"]}
       \cup { [b EXCEPT !.conns = Append(Forget(@), [tab |-> home, state |-> "open"]),
                        !.ws = Len(b.conns) + 1,
                        !.inbox = <<>>,
                        !.pending = {},
                        !.at = "restored"] :
                x \in IF Len(b.conns) < MaxConns THEN {1} ELSE {} }
  ELSE {[b EXCEPT !.at = "no restore"]}

\* After the loop, lines 188-200: a connection to the home tab is opened and
\* bound (nothing is closed first), or create_connection raises and the
\* exception is dropped.
Restore(tabs, home, b) ==
  IF home # None /\ HomeEntry(tabs, home) # 0
  THEN {[b EXCEPT !.at = "restore failed"]}
       \cup { [b EXCEPT !.conns = Append(Forget(@), [tab |-> home, state |-> "open"]),
                        !.ws = Len(b.conns) + 1,
                        !.tab_id = home,
                        !.inbox = <<>>,
                        !.pending = {},
                        !.at = "restored"] :
                x \in IF Len(b.conns) < MaxConns THEN {1} ELSE {} }
  ELSE {[b EXCEPT !.at = "no restore"]}

\* The for loop from run state b to the next ws.recv() or to the return.
RECURSIVE Loop(_, _, _)
Loop(tabs, home, b) ==
  IF b.idx > Len(tabs)
  THEN Restore(tabs, home, b)
  ELSE UNION { IF n.at = "recv" THEN {n} ELSE Loop(tabs, home, n) :
               n \in Pass(tabs[b.idx], b) }

\* A return that takes an empty result list for a failure and raises.
Returned_raises_when_empty(tabs, home, n) ==
  [NoRet EXCEPT !.op = "extract_text_from_all_tabs", !.ok = (n.results # <<>>),
                !.why = n.at, !.tabs = tabs, !.home = home, !.results = n.results]

\* Line 200: the call returns its results; no exception leaves it.
Returned(tabs, home, n) ==
  [NoRet EXCEPT !.op = "extract_text_from_all_tabs", !.ok = TRUE,
                !.why = n.at, !.tabs = tabs, !.home = home, !.results = n.results]

\* The run state n becomes the state: blocked in the script's ws.recv(), or
\* returned with the results.
Becomes(tabs, home, n) ==
  /\ ws' = n.ws
  /\ tab_id' = n.tab_id
  /\ request_id' = n.request_id
  /\ conns' = n.conns
  /\ inbox' = n.inbox
  /\ pending' = n.pending
  /\ sent' = n.sent
  /\ IF n.at = "recv"
     THEN /\ pc' = "batch_script"
          /\ btabs' = tabs
          /\ bhome' = home
          /\ bidx' = n.idx
          /\ results' = n.results
          /\ ret' = NoRet
     ELSE /\ pc' = "idle"
          /\ btabs' = <<>>
          /\ bhome' = None
          /\ bidx' = 0
          /\ results' = <<>>
          /\ ret' = Returned(tabs, home, n)
  /\ UNCHANGED gui

\* The call, lines 147-151, and the loop up to the first ws.recv().
extract_text_from_all_tabs ==
  /\ Idle
  /\ \E tabs \in TabLists : \E n \in Loop(tabs, tab_id, RunState(1, <<>>)) :
       Becomes(tabs, tab_id, n)

\* execute_script reads its message, lines 136-143, the result is appended,
\* lines 174-178, and the loop goes on.
batch_script_recv ==
  /\ pc = "batch_script"
  /\ \E v \in IF RecvReady THEN {ScriptValue(Head(inbox))}
              ELSE IF RecvRaises THEN {None} ELSE {} :
       \E n \in Loop(btabs, bhome,
                     [RunState(bidx + 1,
                               Append(results, Result(btabs[bidx], PageText(v))))
                        EXCEPT !.inbox = IF RecvReady THEN Tail(inbox) ELSE inbox]) :
         Becomes(btabs, bhome, n)

\* ------------------------------------------------------------- the browser
\* The browser's steps are taken while the caller is outside the session or
\* blocked in ws.recv(): no time passes between a return and the caller
\* taking the value.
BrowserTurn == ret = NoRet

\* ws.recv() hands out the messages one by one, in the order they were pushed:
\* the next one is pushed once the last one was read, which gives a call the
\* same reads, in the same order, as a longer buffer does.
MayPush == inbox = <<>>

\* Answers a command written to the connection, once.
browser_reply ==
  /\ BrowserTurn
  /\ IsOpen(ws)
  /\ MayPush
  /\ \E c \in pending : \E b \in ReplyBodies(c.method) :
       /\ inbox' = Append(inbox, Reply(c.id, b))
       /\ pending' = pending \ {c}
  /\ UNCHANGED <<ws, tab_id, request_id, conns, sent, pc, ret, batch, gui>>

\* Pushes an event.
browser_event ==
  /\ BrowserTurn
  /\ IsOpen(ws)
  /\ MayPush
  /\ \E m \in EventMethods : inbox' = Append(inbox, Event(m))
  /\ UNCHANGED <<ws, tab_id, request_id, conns, pending, sent, pc, ret, batch, gui>>

\* The tab crashes or is closed: the connection is gone.
browser_drop ==
  /\ BrowserTurn
  /\ IsOpen(ws)
  /\ conns' = SetState(ws, "dropped")
  /\ UNCHANGED <<ws, tab_id, request_id, inbox, pending, sent, pc, ret, batch, gui>>

Next ==
  \/ take_result
  \/ connect
  \/ close
  \/ navigate
  \/ navigate_recv
  \/ get_document
  \/ get_document_recv
  \/ execute_script
  \/ execute_script_recv
  \/ extract_text_from_all_tabs
  \/ batch_script_recv
  \/ browser_reply
  \/ browser_event
  \/ browser_drop

Spec == Init /\ [][Next]_vars

\* The session without batches: binding and single commands.
NextCommands ==
  \/ take_result
  \/ connect
  \/ close
  \/ navigate
  \/ navigate_recv
  \/ get_document
  \/ get_document_recv
  \/ execute_script
  \/ execute_script_recv
  \/ browser_reply
  \/ browser_event
  \/ browser_drop

SpecCommands == Init /\ [][NextCommands]_vars

\* The caller's thread is scheduled: a call blocked in ws.recv() goes on once
\* a message is there or the connection is gone, and a returned value is
\* taken.  Nothing obliges the browser to answer.
CallerRuns ==
  /\ WF_vars(navigate_recv)
  /\ WF_vars(get_document_recv)
  /\ WF_vars(execute_script_recv)
  /\ WF_vars(take_result)

SpecCommandsLive == Init /\ [][NextCommands]_vars /\ CallerRuns

\* The session without single commands: binding and batches.
NextBatch ==
  \/ take_result
  \/ connect
  \/ close
  \/ extract_text_from_all_tabs
  \/ batch_script_recv
  \/ browser_reply
  \/ browser_event
  \/ browser_drop

SpecBatch == Init /\ [][NextBatch]_vars

\* The caller's thread is scheduled inside a batch too.
BatchRuns ==
  /\ WF_vars(batch_script_recv)
  /\ WF_vars(take_result)

SpecBatchLive == Init /\ [][NextBatch]_vars /\ BatchRuns

\* get_all_tabs alone, over every answer of the directory.
NextDirectory ==
  \/ get_all_tabs_call
  \/ take_result

SpecDirectory == Init /\ [][NextDirectory]_vars

\* connect over every listing of the directory, with close and a dropping
\* browser between the calls.
NextConnect ==
  \/ take_result
  \/ connect_listing
  \/ close
  \/ browser_drop

SpecConnect == Init /\ [][NextConnect]_vars

\* ------------------------------------------------------------- the GUI
\* WebToTextGUI: the Tk main thread runs one handler at a time; Extract starts
\* a daemon thread per click.  Here a session operation is the interval from
\* its call to its return, and the session's own fields are left alone: what
\* is followed is which thread is inside which operation of which session
\* object.  A port that is no number (ValueError) ends a handler with nothing
\* changed and is left out.

\* The session operations a worker thread is inside of.
ThreadOps == {"navigate", "extract_page_text", "extract_text_from_all_tabs"}

\* Line 786 and 787: a new session object is bound to self.debugger and the
\* main thread enters its connect().
NewDebugger(handler) ==
  /\ created' = created + 1
  /\ debugger' = created + 1
  /\ main' = [handler |-> handler, at |-> "connect", obj |-> created + 1]

\* Lines 843 and 887: threading.Thread(...).start() of one of the two targets;
\* nothing is started when the URL field is empty (lines 847-849).
StartThread ==
  \/ UNCHANGED threads
  \/ \E target \in {"extract_thread", "extract_all_thread"} :
       \E t \in 1..MaxThreads :
         /\ threads[t] = Unborn
         /\ \A u \in 1..(t - 1) : threads[u] # Unborn
         /\ threads' = [threads EXCEPT ![t] = [at |-> target, obj |-> None]]

\* Start/Stop Chrome, lines 757-777.
toggle_chrome ==
  /\ main = InLoop
  /\ UNCHANGED <<session, workers, debugger, created, threads>>
  /\ IF chrome_process
     THEN /\ chrome_process' = FALSE
          /\ main' = IF debugger # None
                     THEN [handler |-> "toggle_chrome", at |-> "close", obj |-> debugger]
                     ELSE InLoop
     ELSE /\ chrome_process' \in BOOLEAN        \* launch returned a process or None
          /\ UNCHANGED main

\* Connect, lines 779-796, up to the first call into a session.
connect_to_chrome ==
  /\ main = InLoop
  /\ created < MaxDebuggers
  /\ UNCHANGED <<session, workers, chrome_process, threads>>
  /\ IF debugger # None
     THEN /\ main' = [handler |-> "connect_to_chrome", at |-> "close", obj |-> debugger]
          /\ UNCHANGED <<debugger, created>>
     ELSE NewDebugger("connect_to_chrome")

\* Extract, lines 798-887, up to the first call into a session or to the start
\* of the worker thread.
extract_text ==
  /\ main = InLoop
  /\ UNCHANGED <<session, workers, chrome_process>>
  /\ IF debugger = None
     THEN /\ created < MaxDebuggers
          /\ NewDebugger("extract_text")        \* connect_to_chrome(), line 802
          /\ UNCHANGED threads
     ELSE /\ StartThread
          /\ UNCHANGED <<debugger, created, main>>

\* self.debugger.close() returned to the main thread, lines 765-766 and 784-786.
close_returns ==
  /\ main.at = "close"
  /\ UNCHANGED <<session, workers, chrome_process, threads>>
  /\ IF main.handler = "toggle_chrome"
     THEN /\ debugger' = None
          /\ main' = InLoop
          /\ UNCHANGED created
     ELSE NewDebugger(main.handler)

\* self.debugger.connect() returned to the main thread, lines 787-794, and
\* Extract goes on after its connect_to_chrome(), lines 803-887.
connect_returns ==
  /\ main.at = "connect"
  /\ main' = InLoop
  /\ UNCHANGED <<session, workers, chrome_process, created>>
  /\ \E success \in BOOLEAN :
       /\ debugger' = IF success THEN debugger ELSE None
       /\ IF main.handler = "extract_text" /\ success
          THEN StartThread
          ELSE UNCHANGED threads

\* A worker thread calls into the session self.debugger names at that moment,
\* lines 820, 863 and 872; with self.debugger None the call raises and the
\* thread's except branch ends it.
thread_calls ==
  /\ UNCHANGED <<session, workers, chrome_process, debugger, created, main>>
  /\ \E t \in 1..MaxThreads :
       /\ threads[t].at \in {"extract_thread", "extract_all_thread", "sleep"}
       /\ threads' = [threads EXCEPT ![t] =
            IF debugger = None
            THEN [at |-> "done", obj |-> None]
            ELSE [at |-> CASE threads[t].at = "extract_thread" -> "navigate"
                           [] threads[t].at = "extract_all_thread" -> "extract_text_from_all_tabs"
                           [] threads[t].at = "sleep" -> "extract_page_text",
                  obj |-> debugger]]

\* The session operation returns to the worker thread: after navigate the
\* thread sleeps (line 869) or, navigate having failed, ends (line 866); after
\* the extraction it ends.
thread_returns ==
  /\ UNCHANGED <<session, workers, chrome_process, debugger, created, main>>
  /\ \E t \in 1..MaxThreads :
       /\ threads[t].at \in ThreadOps
       /\ \E success \in BOOLEAN :
            threads' = [threads EXCEPT ![t] =
              IF threads[t].at = "navigate" /\ success
              THEN [at |-> "sleep", obj |-> None]
              ELSE [at |-> "done", obj |-> None]]

NextGui ==
  \/ toggle_chrome
  \/ connect_to_chrome
  \/ extract_text
  \/ close_returns
  \/ connect_returns
  \/ thread_calls
  \/ thread_returns

SpecGui == Init /\ [][NextGui]_vars

\* ------------------------------------------------------------- worker threads
\* The threads Extract starts run extract_thread, lines 860-885, on the one
\* session: navigate, then extract_page_text's execute_script.  Inside a
\* command a thread can be preempted between any two accesses of the shared
\* fields: self.request_id += 1 is a read and a later write, and the id a
\* Command is written with is read again at the send (lines 81-83, 126-128).
Method(op) == IF op = "navigate" THEN "Page.navigate" ELSE "Runtime.evaluate"

WorkerStep(w, r) ==
  /\ workers' = [workers EXCEPT ![w] = r]
  /\ UNCHANGED <<tab_id, conns, pc, ret, batch, chrome_process, debugger, created,
                 main, threads>>

\* The one connect() of a session object, line 787: the main thread calls it
\* right after the construction, before Extract can start a thread on it.
connect_new_session ==
  /\ ws = None
  /\ \A w \in 1..MaxThreads : workers[w].at = "unborn"
  /\ connect

\* threading.Thread(target=extract_thread).start(), line 887, which Extract
\* reaches with a connected session only (lines 800-806).
worker_start ==
  \E w \in 1..MaxThreads :
    /\ ws # None
    /\ Idle
    /\ workers[w].at = "unborn"
    /\ \A u \in 1..(w - 1) : workers[u].at # "unborn"
    /\ WorkerStep(w, Worker("navigate", "call"))
    /\ UNCHANGED <<ws, request_id, inbox, pending, sent>>

\* The guard of the command (lines 77, 122) and the read of self.request_id
\* for the increment.
worker_load ==
  \E w \in 1..MaxThreads :
    /\ workers[w].at = "call"
    /\ WorkerStep(w, IF ws = None
                     THEN [workers[w] EXCEPT !.at = "done"]
                     ELSE [workers[w] EXCEPT !.at = "loaded", !.loaded = request_id])
    /\ UNCHANGED <<ws, request_id, inbox, pending, sent>>

\* The write of the increment, lines 81 and 126.
worker_store ==
  \E w \in 1..MaxThreads :
    /\ workers[w].at = "loaded"
    /\ workers[w].loaded < MaxId
    /\ request_id' = workers[w].loaded + 1
    /\ WorkerStep(w, [workers[w] EXCEPT !.at = "stored"])
    /\ UNCHANGED <<ws, inbox, pending, sent>>

\* self.ws.send(...) with "id": self.request_id, lines 82-86 and 127-134; it
\* raises on a handle that is not open, and the command's except branch
\* returns.
worker_send ==
  \E w \in 1..MaxThreads :
    /\ workers[w].at = "stored"
    /\ IF IsOpen(ws)
       THEN /\ sent' = Append(sent, request_id)
            /\ pending' = pending \cup {Command(request_id, Method(workers[w].op))}
            /\ WorkerStep(w, [workers[w] EXCEPT
                 !.at = "recv",
                 !.wrote = IF workers[w].op = "navigate" THEN request_id ELSE @])
       ELSE /\ WorkerStep(w, [workers[w] EXCEPT !.at = "done"])
            /\ UNCHANGED <<sent, pending>>
    /\ UNCHANGED <<ws, request_id, inbox>>

\* self.ws.recv(): navigate's loop compares with self.request_id as it is at
\* that moment (line 91) and, once it has ended, the thread goes on to
\* execute_script (line 872); execute_script takes the one message and the
\* thread ends.
worker_recv ==
  \E w \in 1..MaxThreads :
    /\ workers[w].at = "recv"
    /\ UNCHANGED <<ws, request_id, pending, sent>>
    /\ \/ /\ RecvReady
          /\ inbox' = Tail(inbox)
          /\ WorkerStep(w,
               IF workers[w].op = "navigate"
               THEN IF NavigateDone(Head(inbox), request_id)
                    THEN [workers[w] EXCEPT !.op = "execute_script", !.at = "call",
                                            !.ended = Head(inbox)]
                    ELSE workers[w]
               ELSE [workers[w] EXCEPT !.at = "done"])
       \/ /\ RecvRaises
          /\ WorkerStep(w, [workers[w] EXCEPT !.at = "done"])
          /\ UNCHANGED inbox

\* A session bound by the main thread and the worker threads on it.
NextThreads ==
  \/ take_result
  \/ connect_new_session
  \/ worker_start
  \/ worker_load
  \/ worker_store
  \/ worker_send
  \/ worker_recv
  \/ browser_reply
  \/ browser_event
  \/ browser_drop

SpecThreads == Init /\ [][NextThreads]_vars

\* ------------------------------------------------------------- properties
BatchOp == "extract_text_from_all_tabs"

\* The id of the command the call in progress sent: the last one written.
LastSent == sent[Len(sent)]

Lacking == {"noresult", "empty", "undef"}

\* C1: the value execute_script and get_document return is read from the
\* Reply whose id is the id of the Command that call sent, never from an Event
\* or from a Reply to an earlier Command.
C1_ValueFromMatchingReply ==
  (ret.op \in {"execute_script", "get_document"} /\ ret.src # NoMsg)
    => (ret.src.kind = "reply" /\ ret.src.id = ret.cmd)

\* C2: every message navigate reads either ends the call with success, when it
\* is the Reply to the navigate Command or the load event, or is dropped and
\* the call keeps waiting, when it is any other Event or Reply.
C2_NavigateReturnsOnFirstMatch ==
  [][(pc = "navigate" /\ inbox # <<>> /\ inbox' = Tail(inbox))
       => LET m == Head(inbox) IN
          IF \/ m.kind = "reply" /\ m.id = LastSent
             \/ m.kind = "event" /\ m.body = "Page.loadEventFired"
          THEN pc' = "idle" /\ ret'.op = "navigate" /\ ret'.ok /\ ret'.src = m
          ELSE pc' = "navigate" /\ ret' = NoRet]_vars

\* C2 witness: a second navigate returned on the Reply to its own Command.
C2_Witness ==
  /\ ret.op = "navigate" /\ ret.ok
  /\ ret.cmd = 2 /\ ret.src = Reply(2, "empty")

\* C3: a batch returns one result per listed tab, in listing order, and the
\* result of a tab without a socket URL holds an error text.
C3_OneResultPerTab ==
  ret.op = BatchOp
    => /\ Len(ret.results) = Len(ret.tabs)
       /\ \A k \in 1..Len(ret.tabs) :
            /\ ret.results[k].tab = ret.tabs[k].id
            /\ ~ret.tabs[k].hasWs => ret.results[k].text = ErrorText

\* C4: a batch started with tab H bound returns normally with a result for
\* every tab it could try; when H is listed with a socket URL the restore is
\* attempted, and when its connection opens the session ends bound to H over
\* an open connection to H.
C4_HomeRestored ==
  ret.op = BatchOp
    => /\ ret.ok
       /\ \A k \in 1..Len(ret.tabs) :
            ret.tabs[k].hasWs
              => \E j \in 1..Len(ret.results) : ret.results[j].tab = ret.tabs[k].id
       /\ (ret.home # None /\ \E k \in 1..Len(ret.tabs) :
             ret.tabs[k].id = ret.home /\ ret.tabs[k].hasWs)
            <=> ret.why \in {"restored", "restore failed"}
       /\ ret.why = "restored"
            => /\ tab_id = ret.home
               /\ ws # None
               /\ conns[ws] = [tab |-> ret.home, state |-> "open"]

\* C4 witness: a batch over two tabs that ended with the home tab restored.
C4_Witness ==
  /\ ret.op = BatchOp /\ ret.why = "restored"
  /\ Len(ret.results) = 2
  /\ tab_id = ret.home /\ IsOpen(ws)

\* C4 witness of the failing restore: the results are returned all the same.
C4_WitnessFailed ==
  /\ ret.op = BatchOp /\ ret.why = "restore failed"
  /\ Len(ret.results) = 1

\* C5: at most one connection opened by the session is open at any time.
C5_AtMostOneLive == Cardinality(LiveConns) <= 1

\* C6: the ids of the commands written are strictly increasing, and none
\* exceeds the counter.
C6_IdsStrictlyIncreasing ==
  /\ \A i, j \in 1..Len(sent) : i < j => sent[i] < sent[j]
  /\ \A i \in 1..Len(sent) : sent[i] <= request_id

\* C6 witness: a second command written on a second connection, after a rebind.
C6_Witness ==
  /\ sent = <<1, 2>>
  /\ ws = 2
  /\ pending = {Command(2, "Runtime.evaluate")}

\* C7: a bind to a tab descriptor without a socket URL fails with an error
\* and leaves the held connection as it was: a batch over tabs that all lack
\* the URL records an error for each and changes neither handle nor
\* connections, and a failing connect leaves both as they were.
C7_NoUrlBindFails ==
  [][/\ (Idle /\ IsOpen(ws) /\ ret'.op = BatchOp /\ ret'.tabs # <<>>
            /\ \A k \in 1..Len(ret'.tabs) : ~ret'.tabs[k].hasWs)
          => /\ ws' = ws /\ conns' = conns
             /\ Len(ret'.results) = Len(ret'.tabs)
             /\ \A k \in 1..Len(ret'.results) : ret'.results[k].text = ErrorText
     /\ (Idle /\ ret'.op = "connect" /\ ~ret'.ok)
          => ws' = ws /\ conns' = conns]_vars

\* C8: execute_script returns None, by its normal return, whenever the message
\* it reads lacks a level of result.result.value.
C8_MissingValueIsNone ==
  (ret.op = "execute_script" /\ ret.src.body \in Lacking)
    => (ret.ok /\ ret.val = None /\ ret.why = "returned")

\* C8 witness: the Reply to the script's own Command was read and has no value.
C8_Witness ==
  /\ ret.op = "execute_script" /\ ret.ok /\ ret.val = None
  /\ ret.src = Reply(ret.cmd, "undef")

\* C9: on a listing, get_all_tabs returns the page-type entries, all of them,
\* in listing order and nothing else; without one it returns the empty list.
C9_PageEntriesOnly ==
  (ret.op = "get_all_tabs" /\ ret.http = "ok")
    => LET pages == {i \in 1..Len(ret.listing) : ret.listing[i].type = "page"} IN
       /\ ret.ok
       /\ Len(ret.tabs) = Cardinality(pages)
       /\ \A i \in pages : \E k \in 1..Len(ret.tabs) : ret.tabs[k] = ret.listing[i]
       /\ \A k \in 1..Len(ret.tabs) : ret.tabs[k].type = "page"
       /\ \A k \in 1..(Len(ret.tabs) - 1) : ret.tabs[k].id < ret.tabs[k + 1].id

\* C9 witness: a listing that mixes a page with another entry.
C9_Witness ==
  /\ ret.op = "get_all_tabs" /\ ret.http = "ok"
  /\ Len(ret.listing) = 2 /\ Len(ret.tabs) = 1
  /\ ret.listing[1].type = "service_worker" /\ ~ret.listing[2].hasWs

\* C9 witness: a listing without a page entry.
C9_WitnessNoPage ==
  /\ ret.op = "get_all_tabs" /\ ret.http = "ok"
  /\ Len(ret.listing) = 2 /\ ret.tabs = <<>>

\* C10: a batch over no tab returns normally with an empty result list.
C10_EmptyBatch ==
  (ret.op = BatchOp /\ ret.tabs = <<>>) => (ret.ok /\ ret.results = <<>>)

\* C10 witness: a batch over no tab returned, with a tab bound before.
C10_Witness ==
  /\ ret.op = BatchOp /\ ret.tabs = <<>>
  /\ ret.home # None /\ ret.results = <<>>

\* C11: a navigate that has sent its Command returns in the end, also when
\* neither its Reply nor the load event ever comes (stated for the calls that
\* leave an id to send, so that no bound on the ids ends the behaviour).
C11_NavigateReturns == (pc = "navigate" /\ request_id < MaxId) ~> (pc = "idle")

\* The tasks inside an operation of session object o.
TasksInside(o) ==
  Cardinality({t \in 1..MaxThreads : threads[t].at \in ThreadOps /\ threads[t].obj = o})
  + (IF main.at \in {"close", "connect"} /\ main.obj = o THEN 1 ELSE 0)

\* C12: at no time are two tasks inside an operation of the same session.
C12_OneTaskPerSession == \A o \in 1..MaxDebuggers : TasksInside(o) <= 1

\* What get_document and execute_script hand back for a message without a
\* value: their normal return of None.
NullValue == <<None>>

\* C13: navigate, get_document and execute_script on a session without a
\* handle write no Command, leave counter, tab id and handle as they were,
\* and hand back an outcome that is not the one of a call that was answered
\* without a value.
C13_NotBoundFails ==
  [][(Idle /\ ws = None /\ ret'.op \in {"navigate", "get_document", "execute_script"})
       => /\ UNCHANGED <<ws, tab_id, request_id, conns, sent, pending>>
          /\ pc' = "idle"
          /\ Outcome(ret') # NullValue]_vars

\* C14: close returns normally and leaves the session without a handle,
\* whether or not ws.close() raised; on a session without a handle it changes
\* nothing, so a second close leaves what the first left.
C14_CloseIdempotent ==
  [][(Idle /\ ret'.op = "close")
       => /\ ret'.ok
          /\ pc' = "idle"
          /\ ws' = None
          /\ UNCHANGED <<tab_id, request_id, sent>>
          /\ ws = None => UNCHANGED <<conns, inbox, pending>>]_vars

\* C14 witness: close returned after ws.close() raised: the one connection the
\* session opened is still open and the handle is dropped.
C14_Witness ==
  /\ ret.op = "close" /\ ret.ok
  /\ ws = None
  /\ Len(conns) = 1 /\ conns[1].state = "open"

\* C15: when the Reply execute_script reads carries an error payload, or no
\* result at all, the caller is handed an outcome other than the null value
\* of a script that returned nothing.
C15_ErrorReplyDistinct ==
  (ret.op = "execute_script" /\ ret.src.kind = "reply" /\ ret.src.id = ret.cmd
     /\ ret.src.body \in {"error", "noresult"})
    => Outcome(ret) # NullValue

\* What get_all_tabs hands back for a directory that lists no page tab.
EmptyTabSet == <<<<>>>>

\* C16: when the discovery endpoint is unreachable, answers another status
\* than success, or answers no listing, get_all_tabs hands back an outcome
\* other than the empty tab set.
C16_DirectoryFailureDistinct ==
  (ret.op = "get_all_tabs" /\ ret.http # "ok") => Outcome(ret) # EmptyTabSet

\* The messages connect returns with its flag.
ConnectReasons ==
  {"Connected successfully", "Connected to new tab", "Failed to connect",
   "No Chrome tabs found", "Failed to create new tab", "Connection error"}

\* C17: every connect returns to its caller, with a flag and one of its
\* messages, and with a true flag only when the call opened a connection that
\* the session now holds, open, to the tab it names.
C17_ConnectReturnsPair ==
  [][(Idle /\ ret'.op = "connect")
       => /\ pc' = "idle"
          /\ Outcome(ret') \in BOOLEAN \X ConnectReasons
          /\ ret'.ok => /\ Len(conns') = Len(conns) + 1
                        /\ ws' = Len(conns')
                        /\ conns'[ws'] = [tab |-> tab_id', state |-> "open"]]_vars

\* C17 witness: a connect with a tab bound already opened a connection to a
\* new tab and holds it.
C17_Witness ==
  /\ ret.op = "connect" /\ ret.ok /\ ret.why = "Connected to new tab"
  /\ ws = 2 /\ IsOpen(ws) /\ tab_id = NewTabId

\* C17 witness of a failure: create_connection raised and the flag is false.
C17_WitnessFailed ==
  /\ ret.op = "connect" /\ ~ret.ok /\ ret.why = "Connection error"
  /\ IsOpen(ws) /\ conns[ws].tab # tab_id

\* The results a batch has gathered once the step is taken: the list it
\* returned, or the list of the call still running.
GatheredNext == IF pc' = "idle" THEN ret'.results ELSE results'

\* C18: when the extraction on a tab the batch is bound to fails (the
\* connection is gone at the script's ws.recv(), or the script's Command is
\* answered with an error), the batch goes on or returns normally and the
\* tab's text slot holds an error text.
C18_ExtractionFailureRecorded ==
  [][(/\ pc = "batch_script"
      /\ \/ RecvRaises
         \/ RecvReady /\ Head(inbox) = Reply(request_id, "error")
      /\ (pc' = "idle" \/ bidx' # bidx))
       => /\ pc' = "idle" => ret'.ok
          /\ Len(GatheredNext) > Len(results)
          /\ GatheredNext[Len(results) + 1].tab = btabs[bidx].id
          /\ GatheredNext[Len(results) + 1].text = ErrorText]_vars

\* The Commands written to the held connection whose Reply the session has
\* not read: not answered yet, or answered with the Reply still unread.
Awaiting ==
  Cardinality(pending) + Cardinality({i \in 1..Len(inbox) : inbox[i].kind = "reply"})

\* C19: at most one Command written to the held connection awaits its Reply.
C19_OneCommandAwaiting == Awaiting <= 1

\* C20: between operations, a held handle is the connection that was opened
\* to the tab tab_id names.
C20_HandleMatchesTab ==
  (pc = "idle" /\ ws # None) => conns[ws].tab = tab_id

\* C21: a close of the held handle that raises during the rebind of a batch
\* is swallowed and the tab is bound all the same.  Line 164 names the tab in
\* tab_id once the close is past, so a batch over one tab with a socket URL,
\* started with a handle held, that returns at once (the tab failed) has
\* named that tab: it failed at create_connection and not at the close.
C21_CloseFailureSwallowed ==
  [][(/\ Idle /\ ws # None
      /\ ret'.op = BatchOp
      /\ Len(ret'.tabs) = 1 /\ ret'.tabs[1].hasWs)
       => tab_id' = ret'.tabs[1].id]_vars

\* The entries of a listing connect can bind: page type, with a socket URL.
Suitable(l) == {i \in 1..Len(l) : l[i].type = "page" /\ l[i].hasWs}

\* The outcomes of connect once it has asked for a new tab.
NewTabOutcomes == {"Connected to new tab", "Failed to create new tab", "Connection error"}

\* C22 (amended): on a listing, connect names and binds the first entry, in
\* listing order, of page type with a socket URL; on a listing that has
\* entries and none of that kind it asks for a new tab and binds it; on an
\* empty listing it fails with its no-tabs message and asks for no tab.
C22_ConnectBindsFirstSuitable ==
  (ret.op = "connect" /\ ret.http = "ok")
    => LET l == ret.listing
           first == CHOOSE i \in Suitable(l) : \A j \in Suitable(l) : i <= j
       IN
       /\ Suitable(l) # {}
            => /\ tab_id = l[first].id
               /\ ret.why \in {"Connected successfully", "Connection error"}
               /\ ret.ok => conns[ws] = [tab |-> l[first].id, state |-> "open"]
       /\ (Suitable(l) = {} /\ l # <<>>)
            => /\ ret.why \in NewTabOutcomes
               /\ ret.ok => /\ tab_id = NewTabId
                            /\ conns[ws] = [tab |-> NewTabId, state |-> "open"]
       /\ l = <<>> => (~ret.ok /\ ret.why = "No Chrome tabs found")

\* C22 witness: the first entry has no socket URL and the second one is bound.
C22_Witness ==
  /\ ret.op = "connect" /\ ret.http = "ok" /\ ret.ok
  /\ Len(ret.listing) = 2
  /\ ret.listing[1].type = "page" /\ ~ret.listing[1].hasWs
  /\ Suitable(ret.listing) = {2}
  /\ tab_id = 2 /\ IsOpen(ws)

\* C22 witness: two entries can be bound and the first one is.
C22_WitnessFirstOfTwo ==
  /\ ret.op = "connect" /\ ret.http = "ok" /\ ret.ok
  /\ Suitable(ret.listing) = {1, 2}
  /\ tab_id = 1 /\ IsOpen(ws)

\* C22 as stated: whenever the listing has no entry connect can bind, the
\* empty listing included, connect asks for a new tab.
C22_NewTabWheneverNoneSuitable ==
  (ret.op = "connect" /\ ret.http = "ok" /\ Suitable(ret.listing) = {})
    => ret.why \in NewTabOutcomes

\* C23: with two worker threads on one session no id is written twice, and a
\* navigate that ended on a Reply ended on the Reply to the id its own
\* Command was written with.
C23_ThreadsKeepIdsApart ==
  /\ \A i, j \in 1..Len(sent) : i < j => sent[i] # sent[j]
  /\ \A w \in 1..MaxThreads :
       workers[w].ended.kind = "reply" => workers[w].ended.id = workers[w].wrote

\* C24: between operations the handle the session holds is never a
\* connection the session itself has closed.
C24_NoClosedHandleKept ==
  (pc = "idle" /\ ws # None) => conns[ws].state # "closed"

\* C25: a connect that returns failure leaves the tab id and the handle as
\* they were before the call.
C25_FailedConnectKeepsBinding ==
  [][(Idle /\ ret'.op = "connect" /\ ~ret'.ok)
       => (tab_id' = tab_id /\ ws' = ws)]_vars

\* C26: a batch that waits for the answer to its script returns in the end,
\* also when the tab never answers.
C26_BatchReturns == (pc = "batch_script") ~> (pc = "idle")

CommandOps == {"navigate", "get_document", "execute_script"}

\* A call of navigate, get_document or execute_script is made on a session
\* that holds a handle.
CommandCalled ==
  Idle /\ ws # None /\ (pc' \in CommandOps \/ ret'.op \in CommandOps)

\* C27 (amended): a call of navigate, get_document or execute_script on a
\* session that holds a handle writes its Command once when the connection
\* is open at the send, and writes none and fails when the send raises on a
\* connection that is gone; whatever is read while the call waits, nothing is
\* written again.
C27_OneCommandPerCall ==
  [][/\ CommandCalled
          => IF IsOpen(ws)
             THEN sent' = Append(sent, request_id') /\ pc' \in CommandOps
             ELSE sent' = sent /\ pc' = "idle" /\ ~ret'.ok
     /\ pc \in CommandOps => sent' = sent]_vars

\* C27 witness: an execute_script failed at its ws.recv(), the connection
\* having gone after the send, with its one Command written.
C27_Witness ==
  /\ ret.op = "execute_script" /\ ~ret.ok /\ ret.cmd = 1
  /\ sent = <<1>> /\ request_id = 1

\* C27 witness of the send that raises: the id is taken, no Command written.
C27_WitnessSendRaises ==
  /\ ret.op = "navigate" /\ ret.why = "Navigation error"
  /\ sent = <<>> /\ request_id = 1

\* C27 as stated: every call on a session that holds a handle writes exactly
\* one Command.
C27_ExactlyOneCommandPerCall ==
  [][/\ CommandCalled => sent' = Append(sent, request_id')
     /\ pc \in CommandOps => sent' = sent]_vars


\* C28: navigate, get_document and execute_script never change the Session's
\* binding: every step of such a call, from the one that enters it to the
\* one that returns, whatever it returns, and every step the browser takes
\* while the call waits, leaves the handle and the bound tab id as they
\* were; and a step that does change either belongs to connect, to a batch
\* run or to close.
BindingOps == {"connect", "close", BatchOp}

CommandStep ==
  \/ pc \in CommandOps
  \/ Idle /\ (pc' \in CommandOps \/ ret'.op \in CommandOps)

BindingStep ==
  \/ pc = "batch_script"
  \/ Idle /\ (pc' = "batch_script" \/ ret'.op \in BindingOps)

C28_CommandsKeepBinding ==
  [][/\ CommandStep => (ws' = ws /\ tab_id' = tab_id)
     /\ (ws' # ws \/ tab_id' # tab_id) => BindingStep]_vars

\* C28 witness: a navigate whose exception was caught inside has returned,
\* its Command written, and the Session is bound as before.
C28_Witness ==
  /\ ret.op = "navigate" /\ ret.why = "Navigation error"
  /\ sent # <<>>
  /\ ws # None /\ tab_id # None /\ ~IsOpen(ws)

====
